---- MODULE Spec2Model ----
(***************************************************************************)
(* Model of backend/src/services/matchingService.js: the similarity scorer *)
(* (cosineSimilarity, findBestMatch) and the greedy insertion planner      *)
(* (planInsertions).                                                       *)
(*                                                                         *)
(* Numbers.  Every time of the model is a multiple of 0.5 s and is written *)
(* in ticks of 0.5 s (8 s = 16 ticks, 1.5 s = 3 ticks): sums, differences   *)
(* and comparisons of such doubles are exact.  Embeddings are integer      *)
(* vectors whose norms are integers and whose cosines are multiples of     *)
(* 1/100; a similarity or confidence is written in hundredths (0.3 = 30).  *)
(* For these vectors Math.sqrt is exact and the one rounding, that of the  *)
(* final division, is the rounding of the decimal literal the value is     *)
(* compared with, so the order of the doubles is the order of the integers.*)
(***************************************************************************)
EXTENDS Integers, Sequences, FiniteSets, TLC

VARIABLES
  transcriptSegments,  \* argument: sequence of segments
  brollEmbeddings,     \* argument: sequence of B-roll candidates
  arollDuration,       \* argument: A-roll duration (ticks)
  options,             \* the destructured options, defaults applied
  pc,                  \* "start", "loop", "return", "done", "error"
  suitableSegments,    \* filtered and sorted segments
  idx,                 \* position of the for-of loop in suitableSegments
  insertions,          \* local: the plan under construction
  usedBrollIds,        \* local: Set of ids already emitted
  lastInsertionEnd,    \* local
  match,               \* result of the latest findBestMatch call
  result,              \* the value returned to the caller
  error,               \* the message of the exception that left the call
  calls,               \* the calls this process finished before, in order
  srv                  \* one request in a route handler of the server

vars == <<transcriptSegments, brollEmbeddings, arollDuration, options, pc,
          suitableSegments, idx, insertions, usedBrollIds, lastInsertionEnd,
          match, result, error, calls, srv>>

others == <<calls, srv>>

inputs == <<transcriptSegments, brollEmbeddings, arollDuration, options>>

(***************************************************************************)
(* Bounds of the model.                                                    *)
(***************************************************************************)
MaxSegments == 3
MaxBrolls == 2

(***************************************************************************)
(* Program constants.                                                      *)
(***************************************************************************)
InsertionOffset == 1       \* 0.5 s, in ticks
MinSegmentDuration == 3    \* 1.5 s, in ticks
InitialBestScore == -100   \* bestScore = -1, in hundredths
ReasonPrefixLength == 100  \* metadata.substring(0, 100)

NULL == [null |-> TRUE]
NoError == "none"

Min(a, b) == IF a < b THEN a ELSE b
Max(a, b) == IF a > b THEN a ELSE b

\* Math.sqrt on the perfect squares the embeddings of the model produce
Sqrt(n) == CHOOSE r \in 0..n : r * r = n

Returned(v) == [threw |-> FALSE, value |-> v]
Thrown(msg) == [threw |-> TRUE, message |-> msg]

(***************************************************************************)
(* cosineSimilarity(vecA, vecB), in hundredths.                            *)
(***************************************************************************)
RECURSIVE SumProducts(_, _, _)
SumProducts(vecA, vecB, n) ==
  IF n = 0 THEN 0 ELSE SumProducts(vecA, vecB, n - 1) + vecA[n] * vecB[n]

\* a scorer that scores a length mismatch as 0 instead of throwing
cosineSimilarityLenient(vecA, vecB) ==
  IF Len(vecA) # Len(vecB) THEN Returned(0)
  ELSE LET dotProduct == SumProducts(vecA, vecB, Len(vecA))
           normA == SumProducts(vecA, vecA, Len(vecA))
           normB == SumProducts(vecB, vecB, Len(vecA))
           denominator == Sqrt(normA) * Sqrt(normB)
       IN  IF denominator = 0 THEN Returned(0)
           ELSE Returned((dotProduct * 100) \div denominator)

\* a scorer that fails on a zero-magnitude vector
cosineSimilarityZeroThrows(vecA, vecB) ==
  IF Len(vecA) # Len(vecB)
  THEN Thrown("Vectors must have the same length")
  ELSE LET dotProduct == SumProducts(vecA, vecB, Len(vecA))
           normA == SumProducts(vecA, vecA, Len(vecA))
           normB == SumProducts(vecB, vecB, Len(vecA))
           denominator == Sqrt(normA) * Sqrt(normB)
       IN  IF denominator = 0 THEN Thrown("Division by zero")
           ELSE Returned((dotProduct * 100) \div denominator)

cosineSimilarity(vecA, vecB) ==
  IF Len(vecA) # Len(vecB)
  THEN Thrown("Vectors must have the same length")
  ELSE LET dotProduct == SumProducts(vecA, vecB, Len(vecA))
           normA == SumProducts(vecA, vecA, Len(vecA))
           normB == SumProducts(vecB, vecB, Len(vecA))
           denominator == Sqrt(normA) * Sqrt(normB)
       IN  IF denominator = 0 THEN Returned(0)
           ELSE Returned((dotProduct * 100) \div denominator)

(***************************************************************************)
(* findBestMatch(segmentEmbedding, brollEmbeddings): the for-of loop from  *)
(* candidate k on, with the bestMatch and bestScore reached so far.        *)
(***************************************************************************)
Substring(metadata, n) == SubSeq(metadata, 1, Min(n, Len(metadata)))

Reason(broll) ==
  <<"Semantic match: ">> \o Substring(broll.metadata, ReasonPrefixLength) \o <<"...">>

IsBetter(similarity, bestScore) == similarity > bestScore

RECURSIVE findBestMatchFrom(_, _, _, _, _)
findBestMatchFrom(segmentEmbedding, brolls, k, bestMatch, bestScore) ==
  IF k > Len(brolls) THEN Returned(bestMatch)
  ELSE LET broll == brolls[k]
           similarity == cosineSimilarity(segmentEmbedding, broll.embedding)
       IN  IF similarity.threw THEN similarity
           ELSE IF IsBetter(similarity.value, bestScore)
           THEN findBestMatchFrom(segmentEmbedding, brolls, k + 1,
                  [id |-> broll.id, confidence |-> similarity.value,
                   reason |-> Reason(broll)],
                  similarity.value)
           ELSE findBestMatchFrom(segmentEmbedding, brolls, k + 1,
                  bestMatch, bestScore)

\* a matcher that throws on an empty candidate list
findBestMatchNonEmpty(segmentEmbedding, brolls) ==
  IF Len(brolls) = 0 THEN Thrown("Reduce of empty array with no initial value")
  ELSE findBestMatchFrom(segmentEmbedding, brolls, 1, NULL, InitialBestScore)

findBestMatch(segmentEmbedding, brolls) ==
  findBestMatchFrom(segmentEmbedding, brolls, 1, NULL, InitialBestScore)

(***************************************************************************)
(* planInsertions: options, filter, sort.                                  *)
(***************************************************************************)
DefaultOptions ==
  [minInsertionGap |-> 16, minInsertionDuration |-> 4,
   maxInsertionDuration |-> 10, minConfidence |-> 30, maxInsertions |-> 6,
   avoidFirstSeconds |-> 4, avoidLastSeconds |-> 6]

\* const { ... = default } = options
Destructure(given) ==
  [k \in DOMAIN DefaultOptions |->
     IF k \in DOMAIN given THEN given[k] ELSE DefaultOptions[k]]

HasEmbedding(segment) == "embedding" \in DOMAIN segment

\* a filter without the minimum segment duration
IsSuitableAnyDuration(segment, duration, opts) ==
  /\ segment.start_sec >= opts.avoidFirstSeconds
  /\ segment.end_sec <= duration - opts.avoidLastSeconds
  /\ HasEmbedding(segment)

\* a filter without the end of the A-roll
IsSuitableAnyEnd(segment, duration, opts) ==
  /\ segment.start_sec >= opts.avoidFirstSeconds
  /\ segment.end_sec - segment.start_sec >= MinSegmentDuration
  /\ HasEmbedding(segment)

IsSuitable(segment, duration, opts) ==
  LET segmentDuration == segment.end_sec - segment.start_sec
  IN  /\ segment.start_sec >= opts.avoidFirstSeconds
      /\ segment.end_sec <= duration - opts.avoidLastSeconds
      /\ segmentDuration >= MinSegmentDuration
      /\ HasEmbedding(segment)

FilterSuitable(segments, duration, opts) ==
  SelectSeq(segments, LAMBDA segment : IsSuitable(segment, duration, opts))

\* Array.prototype.sort with (a, b) => a.start_sec - b.start_sec: stable
RECURSIVE InsertSorted(_, _)
InsertSorted(sorted, segment) ==
  IF sorted = << >> THEN <<segment>>
  ELSE IF sorted[Len(sorted)].start_sec - segment.start_sec > 0
  THEN Append(InsertSorted(SubSeq(sorted, 1, Len(sorted) - 1), segment),
              sorted[Len(sorted)])
  ELSE Append(sorted, segment)

RECURSIVE SortFrom(_, _)
SortFrom(segments, n) ==
  IF n = 0 THEN << >> ELSE InsertSorted(SortFrom(segments, n - 1), segments[n])

\* no sort: the segments in the order of the input
SortByStartNone(segments) == segments

SortByStart(segments) == SortFrom(segments, Len(segments))

(***************************************************************************)
(* planInsertions: the pieces of the loop body.                            *)
(***************************************************************************)
\* an off-by-one cap
ReachedMaxLate(ins, opts) == Len(ins) > opts.maxInsertions

ReachedMax(ins, opts) == Len(ins) >= opts.maxInsertions

\* no gap check
TooSoonNever(segment, lastEnd, opts) == FALSE

\* a gap check that forgets the gap
TooSoonNoGap(segment, lastEnd, opts) == segment.start_sec < lastEnd

\* a gap check on the end of the segment
TooSoonByEnd(segment, lastEnd, opts) ==
  segment.end_sec < lastEnd + opts.minInsertionGap

TooSoon(segment, lastEnd, opts) ==
  segment.start_sec < lastEnd + opts.minInsertionGap

AvailableBrolls(brolls, used) ==
  SelectSeq(brolls, LAMBDA b : b.id \notin used)

\* a pool that ignores the used ids
BrollsToSearchAll(brolls, used, ins, opts) == brolls

\* a pool that never falls back to the used candidates
BrollsToSearchNoReuse(brolls, used, ins, opts) == AvailableBrolls(brolls, used)

BrollsToSearch(brolls, used, ins, opts) ==
  LET availableBrolls == AvailableBrolls(brolls, used)
  IN  IF Len(ins) < opts.maxInsertions /\ Len(availableBrolls) = 0
      THEN brolls
      ELSE IF Len(availableBrolls) > 0 THEN availableBrolls ELSE brolls

\* no confidence threshold
QualifiesAny(m, opts) == m # NULL

Qualifies(m, opts) == m # NULL /\ m.confidence >= opts.minConfidence

\* an insertion that starts with its segment
InsertionStartAtSegment(segment) == segment.start_sec

InsertionStart(segment) == segment.start_sec + InsertionOffset

\* no floor on the duration
InsertionDurationNoFloor(segment, opts) ==
  Min(segment.end_sec - InsertionStart(segment) - InsertionOffset,
      opts.maxInsertionDuration)

InsertionDuration(segment, opts) ==
  Min(Max(opts.minInsertionDuration,
          segment.end_sec - InsertionStart(segment) - InsertionOffset),
      opts.maxInsertionDuration)

NewInsertion(segment, m, opts) ==
  [start_sec |-> InsertionStart(segment),
   duration_sec |-> InsertionDuration(segment, opts),
   broll_id |-> m.id, confidence |-> m.confidence, reason |-> m.reason]

\* the insertion's start taken for its end
NewLastInsertionEndAtStart(segment, opts) == InsertionStart(segment)

NewLastInsertionEnd(segment, opts) ==
  InsertionStart(segment) + InsertionDuration(segment, opts)

(***************************************************************************)
(* planInsertions as a function of its arguments: the loop from segment k  *)
(* of the suitable segments on, with the locals reached so far.  It        *)
(* returns the insertions or throws.                                       *)
(***************************************************************************)
RECURSIVE PlanFrom(_, _, _, _, _, _, _)
PlanFrom(suitable, k, brolls, opts, ins, used, lastEnd) ==
  IF k > Len(suitable) \/ ReachedMax(ins, opts) THEN Returned(ins)
  ELSE IF TooSoon(suitable[k], lastEnd, opts)
  THEN PlanFrom(suitable, k + 1, brolls, opts, ins, used, lastEnd)
  ELSE LET found == findBestMatch(suitable[k].embedding,
                                  BrollsToSearch(brolls, used, ins, opts))
       IN  IF found.threw THEN found
           ELSE IF Qualifies(found.value, opts)
           THEN PlanFrom(suitable, k + 1, brolls, opts,
                         Append(ins, NewInsertion(suitable[k], found.value, opts)),
                         used \cup {found.value.id},
                         NewLastInsertionEnd(suitable[k], opts))
           ELSE PlanFrom(suitable, k + 1, brolls, opts, ins, used, lastEnd)

PlanInsertions(segments, brolls, duration, opts) ==
  PlanFrom(SortByStart(FilterSuitable(segments, duration, opts)), 1, brolls,
           opts, << >>, {}, opts.avoidFirstSeconds)

(***************************************************************************)
(* The inputs of the model.                                                *)
(***************************************************************************)
EmbA == <<1, 0, 0, 0>>
EmbB == <<1, 1, 1, 1>>
EmbNeg == <<-1, 0, 0, 0>>
EmbZero == <<0, 0, 0, 0>>
EmbShort == <<1, 0>>
EmbD == <<1, 1, 1, -1>>   \* at 0.5 from EmbA and from EmbB

Seg(s, e, emb) == [start_sec |-> s, end_sec |-> e, text |-> "t", embedding |-> emb]

SegmentSet ==
  { Seg(0, 6, EmbA),       \* starts at 0 s
    Seg(8, 18, EmbNeg),    \* 4 s .. 9 s, opposite to EmbA
    Seg(22, 26, EmbA),     \* 11 s .. 13 s: shorter than the minimum insertion
    Seg(40, 60, EmbA),     \* 20 s .. 30 s: longer than the maximum insertion
    Seg(40, 45, EmbB),     \* 20 s .. 22.5 s
    Seg(80, 90, EmbA),     \* 40 s .. 45 s
    Seg(106, 113, EmbShort) }  \* 53 s .. 56.5 s, an embedding of another length

\* segments for the edges of the filter and of the scorer: a segment of 1 s,
\* a segment without embedding, an early segment that matches, a
\* zero-magnitude segment, a segment equally close to two candidates and
\* a segment at the end of the A-roll that is shorter than the minimum
\* insertion
EdgeSegmentSet ==
  { Seg(2, 4, EmbA),       \* 1 s long
    [start_sec |-> 22, end_sec |-> 26, text |-> "t"],  \* no embedding
    Seg(8, 18, EmbA),      \* 4 s .. 9 s
    Seg(22, 26, EmbZero),  \* 11 s .. 13 s
    Seg(40, 60, EmbD),     \* 20 s .. 30 s
    Seg(110, 114, EmbA) }  \* 55 s .. 57 s

Broll(id, meta, emb) == [id |-> id, metadata |-> meta, embedding |-> emb]

BrollSet ==
  { Broll("b1", <<"c", "a", "t">>, EmbA),
    Broll("b2", <<"d", "o", "g">>, EmbB),
    Broll("b3", <<"s", "k", "y">>, EmbZero) }

NoOptions == [x \in {} |-> 0]

\* the options object of server.js
ServerOptions ==
  [minInsertionGap |-> 6, minInsertionDuration |-> 4,
   maxInsertionDuration |-> 8, minConfidence |-> 8, maxInsertions |-> 4,
   avoidFirstSeconds |-> 1, avoidLastSeconds |-> 2]

\* the options objects the calls of the model pass
OptionSet ==
  { NoOptions,
    ServerOptions,
    [minConfidence |-> 90],
    [minInsertionDuration |-> 12, maxInsertionDuration |-> 6],
    [maxInsertions |-> 1, minInsertionGap |-> 0] }

\* the (arollDuration, options) pairs of the calls: a 60 s A-roll with every
\* options object
CallSet ==
  {120} \X OptionSet

\* the calls on the edge segments: the defaults, no confidence threshold
\* and the options of the server on a 60 s A-roll, the defaults on a 5 s
\* A-roll
EdgeCallSet ==
  ({120} \X {NoOptions, [minConfidence |-> 0], ServerOptions})
    \cup ({10} \X {NoOptions})

\* the sequences of at most n distinct elements of S
ListsOf(S, n) ==
  UNION { { s \in [1..k -> S] : \A p, q \in 1..k : p # q => s[p] # s[q] }
          : k \in 0..n }

\* no request is being handled
NoRequest == [at |-> "idle"]

(***************************************************************************)
(* The call as a state machine.                                            *)
(***************************************************************************)
Init ==
  /\ \/ /\ transcriptSegments \in ListsOf(SegmentSet, MaxSegments)
        /\ \E call \in CallSet :
             /\ arollDuration = call[1]
             /\ options = Destructure(call[2])
     \/ /\ transcriptSegments \in ListsOf(EdgeSegmentSet, MaxSegments)
        /\ \E call \in EdgeCallSet :
             /\ arollDuration = call[1]
             /\ options = Destructure(call[2])
  /\ brollEmbeddings \in ListsOf(BrollSet, MaxBrolls)
  /\ pc = "start"
  /\ suitableSegments = << >>
  /\ idx = 1
  /\ insertions = << >>
  /\ usedBrollIds = {}
  /\ lastInsertionEnd = 0
  /\ match = NULL
  /\ result = NULL
  /\ error = NoError
  /\ calls = << >>
  /\ srv = NoRequest

\* usedBrollIds kept at module level: the Set of the call before is reused
PrepareKeepsUsed ==
  /\ pc = "start"
  /\ insertions' = << >>
  /\ usedBrollIds' = usedBrollIds
  /\ lastInsertionEnd' = options.avoidFirstSeconds
  /\ suitableSegments' =
       SortByStart(FilterSuitable(transcriptSegments, arollDuration, options))
  /\ idx' = 1
  /\ pc' = "loop"
  /\ UNCHANGED <<others, inputs, match, result, error>>

\* lines 76-93: the locals, the filter and the sort
Prepare ==
  /\ pc = "start"
  /\ insertions' = << >>
  /\ usedBrollIds' = {}
  /\ lastInsertionEnd' = options.avoidFirstSeconds
  /\ suitableSegments' =
       SortByStart(FilterSuitable(transcriptSegments, arollDuration, options))
  /\ idx' = 1
  /\ pc' = "loop"
  /\ UNCHANGED <<others, inputs, match, result, error>>

\* the for-of loop has no segment left
Exhausted ==
  /\ pc = "loop"
  /\ idx > Len(suitableSegments)
  /\ pc' = "return"
  /\ UNCHANGED <<others, inputs, suitableSegments, idx, insertions, usedBrollIds,
                 lastInsertionEnd, match, result, error>>

\* line 97
Break ==
  /\ pc = "loop"
  /\ idx <= Len(suitableSegments)
  /\ ReachedMax(insertions, options)
  /\ pc' = "return"
  /\ UNCHANGED <<others, inputs, suitableSegments, idx, insertions, usedBrollIds,
                 lastInsertionEnd, match, result, error>>

\* line 100
SkipTooSoon ==
  /\ pc = "loop"
  /\ idx <= Len(suitableSegments)
  /\ ~ReachedMax(insertions, options)
  /\ TooSoon(suitableSegments[idx], lastInsertionEnd, options)
  /\ idx' = idx + 1
  /\ UNCHANGED <<others, inputs, pc, suitableSegments, insertions, usedBrollIds,
                 lastInsertionEnd, match, result, error>>

Scored ==
  findBestMatch(suitableSegments[idx].embedding,
                BrollsToSearch(brollEmbeddings, usedBrollIds, insertions, options))

Scoring ==
  /\ pc = "loop"
  /\ idx <= Len(suitableSegments)
  /\ ~ReachedMax(insertions, options)
  /\ ~TooSoon(suitableSegments[idx], lastInsertionEnd, options)

\* line 109: cosineSimilarity throws inside findBestMatch, nothing catches
Throw ==
  /\ Scoring
  /\ Scored.threw
  /\ pc' = "error"
  /\ error' = Scored.message
  /\ UNCHANGED <<others, inputs, suitableSegments, idx, insertions, usedBrollIds,
                 lastInsertionEnd, match, result>>

\* line 111, condition false
NoMatch ==
  /\ Scoring
  /\ ~Scored.threw
  /\ ~Qualifies(Scored.value, options)
  /\ match' = Scored.value
  /\ idx' = idx + 1
  /\ UNCHANGED <<others, inputs, pc, suitableSegments, insertions, usedBrollIds,
                 lastInsertionEnd, result, error>>

\* lines 111-130
Emit ==
  /\ Scoring
  /\ ~Scored.threw
  /\ Qualifies(Scored.value, options)
  /\ match' = Scored.value
  /\ insertions' = Append(insertions,
                          NewInsertion(suitableSegments[idx], Scored.value, options))
  /\ usedBrollIds' = usedBrollIds \cup {Scored.value.id}
  /\ lastInsertionEnd' = NewLastInsertionEnd(suitableSegments[idx], options)
  /\ idx' = idx + 1
  /\ UNCHANGED <<others, inputs, pc, suitableSegments, result, error>>

\* line 133
Return ==
  /\ pc = "return"
  /\ result' = insertions
  /\ pc' = "done"
  /\ UNCHANGED <<others, inputs, suitableSegments, idx, insertions, usedBrollIds,
                 lastInsertionEnd, match, error>>

Next ==
  \/ Prepare
  \/ Exhausted
  \/ Break
  \/ SkipTooSoon
  \/ Throw
  \/ NoMatch
  \/ Emit
  \/ Return

Spec == Init /\ [][Next]_vars

(***************************************************************************)
(* Several calls of planInsertions in one process, one after the other:    *)
(* the function is synchronous, so no other call runs between its steps.   *)
(***************************************************************************)
MaxCalls == 2

S22 == Seg(22, 26, EmbA)
S40 == Seg(40, 60, EmbA)

CallArgSet ==
  { << <<S22, S40>>, <<Broll("b1", <<"c", "a", "t">>, EmbA),
                       Broll("b2", <<"d", "o", "g">>, EmbB)>>, 120, NoOptions >>,
    << <<S22, S40>>, <<Broll("b1", <<"c", "a", "t">>, EmbA),
                       Broll("b2", <<"d", "o", "g">>, EmbB)>>, 120,
       [maxInsertions |-> 1, minInsertionGap |-> 0] >>,
    << <<Seg(106, 113, EmbShort)>>, <<Broll("b1", <<"c", "a", "t">>, EmbA)>>,
       120, NoOptions >>,
    << <<Seg(40, 45, EmbB), Seg(80, 90, EmbA)>>,
       <<Broll("b1", <<"c", "a", "t">>, EmbA)>>, 120, [minConfidence |-> 90] >>,
    << <<Seg(80, 90, EmbA), Seg(40, 45, EmbB)>>,
       <<Broll("b2", <<"d", "o", "g">>, EmbB),
         Broll("b1", <<"c", "a", "t">>, EmbA)>>, 120, ServerOptions >>,
    << << >>, <<Broll("b1", <<"c", "a", "t">>, EmbA)>>, 120, NoOptions >> }

\* how the call of the current state ended
Outcome == IF pc = "error" THEN Thrown(error) ELSE Returned(result)

InitCalls ==
  /\ \E a \in CallArgSet :
       /\ transcriptSegments = a[1]
       /\ brollEmbeddings = a[2]
       /\ arollDuration = a[3]
       /\ options = Destructure(a[4])
  /\ pc = "start"
  /\ suitableSegments = << >>
  /\ idx = 1
  /\ insertions = << >>
  /\ usedBrollIds = {}
  /\ lastInsertionEnd = 0
  /\ match = NULL
  /\ result = NULL
  /\ error = NoError
  /\ calls = << >>
  /\ srv = NoRequest

\* the call has ended and the caller calls the function again; the locals
\* of the ended call stay in memory until lines 76-78 create the new ones
CallAgain ==
  /\ pc \in {"done", "error"}
  /\ Len(calls) < MaxCalls
  /\ calls' = Append(calls, [args |-> inputs, outcome |-> Outcome])
  /\ \E a \in CallArgSet :
       /\ transcriptSegments' = a[1]
       /\ brollEmbeddings' = a[2]
       /\ arollDuration' = a[3]
       /\ options' = Destructure(a[4])
  /\ pc' = "start"
  /\ match' = NULL
  /\ result' = NULL
  /\ error' = NoError
  /\ UNCHANGED <<srv, suitableSegments, idx, insertions, usedBrollIds,
                 lastInsertionEnd>>

NextCalls ==
  \/ Prepare
  \/ Exhausted
  \/ Break
  \/ SkipTooSoon
  \/ Throw
  \/ NoMatch
  \/ Emit
  \/ Return
  \/ CallAgain

SpecCalls == InitCalls /\ [][NextCalls]_vars

(***************************************************************************)
(* Calls whose segment lists are all the orderings of a few segments, two  *)
(* of them of equal start_sec.                                             *)
(***************************************************************************)
OrderSegmentSet ==
  { Seg(22, 26, EmbA), Seg(40, 60, EmbA), Seg(40, 45, EmbB),
    Seg(80, 90, EmbA), Seg(106, 113, EmbShort) }

OrderBrollSet ==
  { <<Broll("b1", <<"c", "a", "t">>, EmbA), Broll("b2", <<"d", "o", "g">>, EmbB)>>,
    <<Broll("b2", <<"d", "o", "g">>, EmbB)>> }

OrderOptionSet ==
  { NoOptions, ServerOptions, [minConfidence |-> 90],
    [maxInsertions |-> 1, minInsertionGap |-> 0] }

InitOrder ==
  /\ transcriptSegments \in ListsOf(OrderSegmentSet, MaxSegments)
  /\ brollEmbeddings \in OrderBrollSet
  /\ arollDuration = 120
  /\ \E given \in OrderOptionSet : options = Destructure(given)
  /\ pc = "start"
  /\ suitableSegments = << >>
  /\ idx = 1
  /\ insertions = << >>
  /\ usedBrollIds = {}
  /\ lastInsertionEnd = 0
  /\ match = NULL
  /\ result = NULL
  /\ error = NoError
  /\ calls = << >>
  /\ srv = NoRequest

SpecOrder == InitOrder /\ [][Next]_vars

(***************************************************************************)
(* The route handlers of the server: POST /api/plan of server.js           *)
(* ("server"), POST /api/plan ("plan") and POST /api/plan/upload           *)
(* ("upload") of the server with the shared helper                         *)
(* generatePlanFromArollBuffer.  A handler runs from one await to the next *)
(* in one step; srv.log lists what the request has done so far.            *)
(***************************************************************************)
Handlers == {"server", "plan", "upload"}

\* a video_url.json or a request body: a_roll and b_rolls
Config(present, url, kind, items) ==
  [a_roll |-> [present |-> present, url |-> url],
   b_rolls |-> [kind |-> kind, items |-> items]]

Meta1 == [id |-> "b1", metadata |-> <<"c", "a", "t">>]
Meta2 == [id |-> "b2", metadata |-> <<"d", "o", "g">>]

ConfigSet ==
  { Config(TRUE, "u", "array", <<Meta1, Meta2>>),
    Config(TRUE, "u", "array", << >>),
    Config(TRUE, "u", "missing", << >>),
    Config(TRUE, "u", "object", << >>),
    Config(TRUE, "", "array", <<Meta1>>),
    Config(FALSE, "", "array", <<Meta1>>) }

NoConfig == Config(FALSE, "", "missing", << >>)

\* req.body, and video_url.json on disk (absent, not JSON, or a config)
BodySet == {[given |-> FALSE, config |-> NoConfig]}
             \cup {[given |-> TRUE, config |-> c] : c \in ConfigSet}

FileSet == {[kind |-> "absent", config |-> NoConfig],
            [kind |-> "invalid", config |-> NoConfig]}
             \cup {[kind |-> "json", config |-> c] : c \in ConfigSet}

\* what transcribeVideo resolves to: segments without embeddings, and the
\* end of the last segment as duration (ticks)
Transcript(segments) ==
  [segments |-> segments,
   duration_sec |-> IF Len(segments) > 0
                    THEN segments[Len(segments)].end_sec ELSE 0]

Piece(s, e, text) == [start_sec |-> s, end_sec |-> e, text |-> text]

TranscriptSet ==
  { Transcript(<< >>),
    Transcript(<<Piece(2, 10, "a")>>),
    Transcript(<<Piece(2, 10, "a"), Piece(20, 30, "b"), Piece(40, 50, "c")>>) }

\* the vectors getEmbeddings resolves to
VectorSet == {EmbA, EmbB}

\* if (req.body && req.body.a_roll)
UsesBody(req) == req.body.given /\ req.body.config.a_roll.present

\* !a_roll || !a_roll.url
ArollMissing(a_roll) == ~a_roll.present \/ a_roll.url = ""

\* the check lets an empty array through
BrollsMissingOnlyAbsent(b_rolls) == b_rolls.kind # "array"

\* !b_rolls || !Array.isArray(b_rolls) || b_rolls.length === 0
BrollsMissing(b_rolls) == b_rolls.kind # "array" \/ Len(b_rolls.items) = 0

\* !transcriptResult.segments || transcriptResult.segments.length === 0
NoSegments(transcriptResult) == Len(transcriptResult.segments) = 0

\* res.status(code).json(...) or res.json(...)
Respond(code, body) ==
  [srv EXCEPT !.at = "responded", !.status = code, !.response = body]

Failure(text, details) == [error |-> text, details |-> details]

\* the text of the catch block of the handler
CatchText ==
  IF srv.handler = "upload"
  THEN "Failed to generate plan from uploaded files."
  ELSE "Failed to generate plan."

InitServer ==
  /\ \E h \in Handlers, b \in BodySet, f \in FileSet, a \in BOOLEAN :
       srv = [at |-> "received", handler |-> h, body |-> b, file |-> f,
              arollFile |-> a, b_rolls |-> << >>,
              transcript |-> Transcript(<< >>),
              segmentsWithEmbeddings |-> << >>,
              brollEmbeddingObjects |-> << >>,
              log |-> << >>, status |-> 0, response |-> NULL]
  /\ transcriptSegments = << >>
  /\ brollEmbeddings = << >>
  /\ arollDuration = 0
  /\ options = DefaultOptions
  /\ pc = "start"
  /\ suitableSegments = << >>
  /\ idx = 1
  /\ insertions = << >>
  /\ usedBrollIds = {}
  /\ lastInsertionEnd = 0
  /\ match = NULL
  /\ result = NULL
  /\ error = NoError
  /\ calls = << >>

planner == <<inputs, pc, suitableSegments, idx, insertions, usedBrollIds,
             lastInsertionEnd, match, result, error, calls>>

\* POST /api/plan up to the await of downloadVideo
HandlePlan ==
  /\ srv.at = "received"
  /\ srv.handler \in {"server", "plan"}
  /\ srv' =
       IF ~UsesBody(srv) /\ srv.file.kind = "absent"
       THEN Respond(400, Failure("video_url.json not found.", ""))
       ELSE IF ~UsesBody(srv) /\ srv.file.kind = "invalid"
       THEN Respond(500, Failure(CatchText, "JSON.parse"))
       ELSE LET videoConfig == IF UsesBody(srv) THEN srv.body.config
                               ELSE srv.file.config
            IN  IF ArollMissing(videoConfig.a_roll)
                THEN Respond(400, Failure("A-roll URL is required.", ""))
                ELSE IF BrollsMissing(videoConfig.b_rolls)
                THEN Respond(400, Failure("At least one B-roll is required.", ""))
                ELSE [srv EXCEPT !.at = "downloading",
                                 !.b_rolls = videoConfig.b_rolls.items,
                                 !.log = <<"checkedBrolls">>]
  /\ UNCHANGED planner

\* POST /api/plan/upload up to the await of transcribeVideo in the helper
HandleUpload ==
  /\ srv.at = "received"
  /\ srv.handler = "upload"
  /\ srv' =
       IF ~srv.arollFile
       THEN Respond(400, Failure("A-roll video file (field 'aroll') is required.", ""))
       ELSE IF srv.file.kind = "absent"
       THEN Respond(400, Failure("video_url.json not found.", ""))
       ELSE IF srv.file.kind = "invalid"
       THEN Respond(500, Failure(CatchText, "JSON.parse"))
       ELSE IF BrollsMissing(srv.file.config.b_rolls)
       THEN Respond(400, Failure("At least one B-roll is required.", ""))
       ELSE [srv EXCEPT !.at = "transcribing",
                        !.b_rolls = srv.file.config.b_rolls.items,
                        !.log = <<"checkedBrolls">>]
  /\ UNCHANGED planner

\* downloadVideo resolves; transcribeVideo is awaited
DownloadDone ==
  /\ srv.at = "downloading"
  /\ srv' = [srv EXCEPT !.at = "transcribing",
                        !.log = Append(srv.log, "download")]
  /\ UNCHANGED planner

\* transcribeVideo resolves; the segments are checked and the first
\* getEmbeddings is awaited
TranscribeDone ==
  /\ srv.at = "transcribing"
  /\ \E t \in TranscriptSet :
       srv' =
         IF NoSegments(t)
         THEN [srv EXCEPT
                 !.at = "responded",
                 !.transcript = t,
                 !.log = Append(srv.log, "transcription"),
                 !.status = 500,
                 !.response =
                   IF srv.handler = "server"
                   THEN Failure("Transcription returned no segments.", "")
                   ELSE Failure(CatchText, "Transcription returned no segments.")]
         ELSE [srv EXCEPT
                 !.at = "embeddingSegments",
                 !.transcript = t,
                 !.log = srv.log \o <<"transcription", "checkedSegments">>]
  /\ UNCHANGED planner

\* the first getEmbeddings resolves; the second is awaited
EmbedSegmentsDone ==
  /\ srv.at = "embeddingSegments"
  /\ \E segmentEmbeddings \in [1..Len(srv.transcript.segments) -> VectorSet] :
       srv' = [srv EXCEPT
                 !.at = "embeddingBrolls",
                 !.segmentsWithEmbeddings =
                   [k \in 1..Len(srv.transcript.segments) |->
                      [start_sec |-> srv.transcript.segments[k].start_sec,
                       end_sec |-> srv.transcript.segments[k].end_sec,
                       text |-> srv.transcript.segments[k].text,
                       embedding |-> segmentEmbeddings[k]]],
                 !.log = Append(srv.log, "embedSegments")]
  /\ UNCHANGED planner

\* the second getEmbeddings resolves; planInsertions is called with the
\* options of the server and the response is sent
EmbedBrollsDone ==
  /\ srv.at = "embeddingBrolls"
  /\ \E vectors \in [1..Len(srv.b_rolls) -> VectorSet] :
       LET brollEmbeddingObjects ==
             [k \in 1..Len(srv.b_rolls) |->
                Broll(srv.b_rolls[k].id, srv.b_rolls[k].metadata, vectors[k])]
           planned ==
             PlanInsertions(srv.segmentsWithEmbeddings, brollEmbeddingObjects,
                            srv.transcript.duration_sec,
                            Destructure(ServerOptions))
       IN  srv' = [srv EXCEPT
                     !.at = "responded",
                     !.brollEmbeddingObjects = brollEmbeddingObjects,
                     !.log = srv.log \o <<"embedBrolls", "planInsertions">>,
                     !.status = IF planned.threw THEN 500 ELSE 200,
                     !.response =
                       IF planned.threw
                       THEN Failure(CatchText, planned.message)
                       ELSE [aroll_duration_sec |-> srv.transcript.duration_sec,
                             transcript_segments |-> srv.transcript.segments,
                             insertions |-> planned.value]]
  /\ UNCHANGED planner

\* the awaited collaborator rejects: the catch block of the handler
Rejected ==
  /\ srv.at \in {"downloading", "transcribing", "embeddingSegments",
                 "embeddingBrolls"}
  /\ srv' = Respond(500, Failure(CatchText, srv.at))
  /\ UNCHANGED planner

NextServer ==
  \/ HandlePlan
  \/ HandleUpload
  \/ DownloadDone
  \/ TranscribeDone
  \/ EmbedSegmentsDone
  \/ EmbedBrollsDone
  \/ Rejected

SpecServer == InitServer /\ [][NextServer]_vars

(***************************************************************************)
(* Helpers of the properties.                                              *)
(***************************************************************************)
Returns == pc = "done"

\* the segment an insertion came from starts InsertionOffset before it
SegmentStartOf(insertion) == insertion.start_sec - InsertionOffset

IdsOf(brolls) == {brolls[k].id : k \in 1..Len(brolls)}

UsedBefore(ins, i) == {ins[j].broll_id : j \in 1..(i - 1)}

\* the pool line 109 searches in the current state
Pool == BrollsToSearch(brollEmbeddings, usedBrollIds, insertions, options)

PoolHasMismatch ==
  \E k \in 1..Len(Pool) :
    Len(Pool[k].embedding) # Len(suitableSegments[idx].embedding)

\* every embedding of the call has the same length
WellFormed ==
  \A d \in {Len(transcriptSegments[k].embedding) :
              k \in {j \in 1..Len(transcriptSegments) :
                       HasEmbedding(transcriptSegments[j])}}
           \cup {Len(brollEmbeddings[k].embedding) : k \in 1..Len(brollEmbeddings)} :
    d = Len(EmbA)

\* some (eligible segment, candidate) pair reaches minConfidence
SomePairQualifies ==
  \E i \in 1..Len(suitableSegments), k \in 1..Len(brollEmbeddings) :
    LET similarity == cosineSimilarity(suitableSegments[i].embedding,
                                       brollEmbeddings[k].embedding)
    IN  ~similarity.threw /\ similarity.value >= options.minConfidence

(***************************************************************************)
(* C1.  Scenario A: default options, a 60 s A-roll, two embedded segments  *)
(* starting at 0 s and 20 s, one candidate of similarity 1.0 to both.      *)
(***************************************************************************)
ScenarioA ==
  /\ options = DefaultOptions
  /\ arollDuration = 120
  /\ Len(transcriptSegments) = 2
  /\ {transcriptSegments[k].start_sec : k \in 1..2} = {0, 40}
  /\ \A k \in 1..2 :
       /\ HasEmbedding(transcriptSegments[k])
       /\ transcriptSegments[k].end_sec - transcriptSegments[k].start_sec >= 3
       /\ transcriptSegments[k].end_sec <= 114
  /\ Len(brollEmbeddings) = 1
  /\ \A k \in 1..2 :
       cosineSimilarity(transcriptSegments[k].embedding,
                        brollEmbeddings[1].embedding) = Returned(100)

\* C1 as stated: scenario A returns exactly 2 insertions with the same
\* broll_id, the second starting at least 0.5 + duration + 8 seconds after
\* the segment start of the first.
C1_ScenarioATwoInsertions ==
  (ScenarioA /\ Returns) =>
    /\ Len(result) = 2
    /\ result[1].broll_id = result[2].broll_id
    /\ result[2].start_sec >=
         SegmentStartOf(result[1]) + 1 + result[1].duration_sec + 16

\* C1 as amended: scenario A returns exactly 1 insertion; it comes from the
\* segment at 20 s (start_sec 20.5), has similarity 1.0 and the candidate's
\* broll_id; the segment at 0 s is not eligible.
C1_ScenarioAOneInsertion ==
  (ScenarioA /\ Returns) =>
    /\ Len(result) = 1
    /\ result[1].start_sec = 41
    /\ result[1].broll_id = brollEmbeddings[1].id
    /\ result[1].confidence = 100
    /\ \A k \in 1..Len(suitableSegments) : suitableSegments[k].start_sec # 0

C1_Witness == ScenarioA /\ Returns /\ Len(result) = 1

(***************************************************************************)
(* C2.  findBestMatch returns null only for an empty candidate list: the   *)
(* call of line 109 on a non-empty pool of the segment's dimensionality    *)
(* returns a match that names one of the pool's candidates.                *)
(***************************************************************************)
C2_NullOnlyIfEmpty ==
  (Scoring /\ ~Scored.threw /\ Len(Pool) > 0) =>
    /\ Scored.value # NULL
    /\ Scored.value.id \in IdsOf(Pool)

(***************************************************************************)
(* C3.  Chronological order: adjacent insertions of the plan, while it is  *)
(* built and when it is returned, have strictly increasing start_sec.      *)
(***************************************************************************)
Chronological(ins) ==
  \A i \in 1..(Len(ins) - 1) : ins[i].start_sec < ins[i + 1].start_sec

C3_ChronologicalOrder ==
  /\ Chronological(insertions)
  /\ Returns => Chronological(result)

\* a returned plan of two insertions whose segments came in descending order
C3_Witness ==
  /\ Returns
  /\ Len(result) >= 2
  /\ Len(transcriptSegments) >= 2
  /\ HasEmbedding(transcriptSegments[1])
  /\ HasEmbedding(transcriptSegments[2])
  /\ transcriptSegments[1].start_sec = SegmentStartOf(result[2])
  /\ transcriptSegments[2].start_sec = SegmentStartOf(result[1])

(***************************************************************************)
(* C4.  Duration bounds.                                                   *)
(***************************************************************************)
DurationsWithin(ins, opts) ==
  \A i \in 1..Len(ins) :
    /\ opts.minInsertionDuration <= ins[i].duration_sec
    /\ ins[i].duration_sec <= opts.maxInsertionDuration

\* C4 as stated: every emitted insertion has minInsertionDuration <=
\* duration_sec <= maxInsertionDuration, for every configuration.
C4_DurationBoundsAnyConfig == DurationsWithin(insertions, options)

\* C4 as amended: every emitted insertion has minInsertionDuration <=
\* duration_sec <= maxInsertionDuration, for every configuration with
\* minInsertionDuration <= maxInsertionDuration.
C4_DurationBounds ==
  options.minInsertionDuration <= options.maxInsertionDuration =>
    /\ DurationsWithin(insertions, options)
    /\ Returns => DurationsWithin(result, options)

\* a plan with an insertion stretched to the floor, past the end of its
\* segment, and one cut at the ceiling
C4_Witness ==
  /\ Returns
  /\ options.minInsertionDuration < options.maxInsertionDuration
  /\ \E i \in 1..Len(result), k \in 1..Len(suitableSegments) :
       /\ suitableSegments[k].start_sec = SegmentStartOf(result[i])
       /\ result[i].duration_sec = options.minInsertionDuration
       /\ result[i].start_sec + result[i].duration_sec > suitableSegments[k].end_sec
  /\ \E i \in 1..Len(result), k \in 1..Len(suitableSegments) :
       /\ suitableSegments[k].start_sec = SegmentStartOf(result[i])
       /\ result[i].duration_sec = options.maxInsertionDuration
       /\ suitableSegments[k].end_sec - result[i].start_sec - InsertionOffset
            > options.maxInsertionDuration

(***************************************************************************)
(* C5.  Cap respected: the plan never holds more than maxInsertions        *)
(* insertions, and a loop iteration that finds maxInsertions insertions    *)
(* leaves the loop without scoring or emitting.                            *)
(***************************************************************************)
C5_CapRespected ==
  /\ [](Len(insertions) <= options.maxInsertions)
  /\ [](Returns => Len(result) <= options.maxInsertions)
  /\ [][(pc = "loop" /\ Len(insertions) >= options.maxInsertions) =>
          (pc' = "return" /\ insertions' = insertions /\ match' = match
           /\ idx' = idx)]_vars

\* the loop was left at the cap with a segment still to come
C5_Witness ==
  /\ pc = "return"
  /\ idx <= Len(suitableSegments)
  /\ Len(insertions) = options.maxInsertions
  /\ Len(insertions) > 0
  /\ ~TooSoon(suitableSegments[idx], lastInsertionEnd, options)

(***************************************************************************)
(* C6.  Confidence floor: every emitted insertion has confidence >=        *)
(* minConfidence, and a call in which no (eligible segment, candidate)     *)
(* pair reaches minConfidence returns the empty plan.                      *)
(***************************************************************************)
C6_ConfidenceFloor ==
  /\ \A i \in 1..Len(insertions) :
       insertions[i].confidence >= options.minConfidence
  /\ (Returns /\ ~SomePairQualifies) => result = << >>

\* minConfidence 0.9, best similarity 0.5: scored, nothing emitted
C6_Witness ==
  /\ Returns
  /\ options.minConfidence = 90
  /\ match # NULL
  /\ match.confidence = 50
  /\ Len(suitableSegments) >= 2
  /\ Len(brollEmbeddings) >= 2
  /\ ~SomePairQualifies
  /\ result = << >>

(***************************************************************************)
(* C7.  No reuse while an unused candidate is available: an insertion      *)
(* emitted while some candidate id is unused carries an unused id, and a   *)
(* plan of at most as many insertions as there are candidate ids repeats   *)
(* no broll_id.                                                            *)
(***************************************************************************)
C7_NoReuseWhileUnused ==
  /\ \A i \in 1..Len(insertions) :
       (IdsOf(brollEmbeddings) \ UsedBefore(insertions, i) # {}) =>
         insertions[i].broll_id \notin UsedBefore(insertions, i)
  /\ Len(insertions) <= Cardinality(IdsOf(brollEmbeddings)) =>
       \A i, j \in 1..Len(insertions) :
         i # j => insertions[i].broll_id # insertions[j].broll_id

\* the second insertion took the unused candidate at similarity 0.5 although
\* the used one scores 1.0 for its segment
C7_Witness ==
  /\ Len(insertions) = 2
  /\ Len(brollEmbeddings) = 2
  /\ insertions[1].broll_id = "b1"
  /\ insertions[1].confidence = 100
  /\ insertions[2].broll_id = "b2"
  /\ insertions[2].confidence = 50

(***************************************************************************)
(* C8.  Gap rule: the segment of every insertion starts at or after        *)
(* lastInsertionEnd + minInsertionGap, lastInsertionEnd being              *)
(* avoidFirstSeconds for the first insertion and start_sec + duration_sec  *)
(* of the preceding insertion for the others.                              *)
(***************************************************************************)
LastInsertionEndBefore(ins, i, opts) ==
  IF i = 1 THEN opts.avoidFirstSeconds
  ELSE ins[i - 1].start_sec + ins[i - 1].duration_sec

C8_GapRule ==
  /\ \A i \in 1..Len(insertions) :
       SegmentStartOf(insertions[i]) >=
         LastInsertionEndBefore(insertions, i, options) + options.minInsertionGap
  /\ lastInsertionEnd =
       IF pc = "start" THEN 0
       ELSE LastInsertionEndBefore(insertions, Len(insertions) + 1, options)

\* two insertions with an eligible segment between them skipped for the gap
C8_Witness ==
  /\ Returns
  /\ Len(result) = 2
  /\ Len(suitableSegments) = 3
  /\ suitableSegments[1].start_sec = SegmentStartOf(result[1])
  /\ suitableSegments[3].start_sec = SegmentStartOf(result[2])
  /\ suitableSegments[2].start_sec <
       result[1].start_sec + result[1].duration_sec + options.minInsertionGap
  /\ options.minInsertionGap > 0

(***************************************************************************)
(* C9.  Empty in, empty out: a call whose embeddings all have the same     *)
(* length never raises, and it returns the empty plan when no segment is   *)
(* eligible, when the candidate list is empty and when no match reaches    *)
(* minConfidence.                                                          *)
(***************************************************************************)
C9_EmptyInEmptyOut ==
  WellFormed =>
    /\ pc # "error"
    /\ error = NoError
    /\ (Scoring => ~Scored.threw)
    /\ (Returns /\ (suitableSegments = << >> \/ brollEmbeddings = << >>
                    \/ ~SomePairQualifies))
         => result = << >>

\* an eligible segment was scored against the empty candidate list
C9_Witness ==
  /\ Returns
  /\ WellFormed
  /\ brollEmbeddings = << >>
  /\ suitableSegments # << >>
  /\ idx > Len(suitableSegments)
  /\ ~TooSoon(suitableSegments[Len(suitableSegments)], lastInsertionEnd, options)
  /\ result = << >>

(***************************************************************************)
(* C10.  Dimension mismatch aborts the plan: scoring a pool that holds an  *)
(* embedding of another length than the segment's throws, the call ends    *)
(* with that error and returns nothing, whatever it had emitted.           *)
(***************************************************************************)
C10_MismatchAborts ==
  /\ []((Scoring /\ PoolHasMismatch) =>
          Scored = Thrown("Vectors must have the same length"))
  /\ [][(Scoring /\ PoolHasMismatch) =>
          (pc' = "error" /\ error' = "Vectors must have the same length")]_vars
  /\ [](pc = "error" => (result = NULL /\ error # NoError))
  /\ [][pc = "error" => FALSE]_vars

\* the call threw after it had emitted an insertion
C10_Witness ==
  /\ pc = "error"
  /\ error = "Vectors must have the same length"
  /\ Len(insertions) >= 1
  /\ result = NULL

(***************************************************************************)
(* Helpers of the properties on the scorer and on eligibility.             *)
(***************************************************************************)
IsZero(vec) == \A n \in 1..Len(vec) : vec[n] = 0

\* the candidate an insertion names (ids are unique within a call)
CandidateOf(insertion) ==
  CHOOSE b \in {brollEmbeddings[k] : k \in 1..Len(brollEmbeddings)} :
    b.id = insertion.broll_id

\* the eligible segments an insertion can have come from
SegmentsOf(insertion) ==
  {seg \in {suitableSegments[k] : k \in 1..Len(suitableSegments)} :
     /\ seg.start_sec = SegmentStartOf(insertion)
     /\ cosineSimilarity(seg.embedding, CandidateOf(insertion).embedding)
          = Returned(insertion.confidence)}

\* no insertion of ins was matched through a zero-magnitude vector
NoneFromZero(ins) ==
  \A i \in 1..Len(ins) :
    /\ ~IsZero(CandidateOf(ins[i]).embedding)
    /\ \E seg \in SegmentsOf(ins[i]) : ~IsZero(seg.embedding)

\* zero magnitude scores 0 and does not throw (the pairs of a call are
\* those of its first loop state: its arguments do not change)
ZeroScoresZero ==
  /\ (pc = "loop" /\ idx = 1) =>
       \A i \in 1..Len(suitableSegments), k \in 1..Len(brollEmbeddings) :
         LET a == suitableSegments[i].embedding
             b == brollEmbeddings[k].embedding
         IN  (Len(a) = Len(b) /\ (IsZero(a) \/ IsZero(b))) =>
               cosineSimilarity(a, b) = Returned(0)
  /\ (Scoring /\ ~PoolHasMismatch) => ~Scored.threw
  /\ WellFormed => pc # "error"

(***************************************************************************)
(* C11.  Zero-magnitude vectors.                                           *)
(***************************************************************************)
\* C11 as stated: cosineSimilarity returns 0 whenever an argument has zero
\* magnitude, planInsertions does not crash on it, and it never emits an
\* insertion whose match came from a zero-magnitude vector.
C11_ZeroNeverMatches ==
  /\ ZeroScoresZero
  /\ NoneFromZero(insertions)

\* C11 as amended: cosineSimilarity returns 0 whenever an argument has zero
\* magnitude, planInsertions does not crash on it, and for every
\* configuration with minConfidence > 0 it never emits an insertion whose
\* match came from a zero-magnitude vector.
C11_ZeroNeverMatchesAboveZero ==
  /\ ZeroScoresZero
  /\ options.minConfidence > 0 => NoneFromZero(insertions)

\* a zero-magnitude candidate was scored (0) and nothing was emitted
C11_Witness ==
  /\ Returns
  /\ options.minConfidence > 0
  /\ match # NULL
  /\ match.confidence = 0
  /\ IsZero(CandidateOf([broll_id |-> match.id]).embedding)
  /\ result = << >>

(***************************************************************************)
(* C12.  Eligibility: the segments of the loop are exactly the segments    *)
(* with start_sec >= avoidFirstSeconds, end_sec <= arollDuration -         *)
(* avoidLastSeconds, end_sec - start_sec >= 1.5 s and an embedding; every  *)
(* insertion comes from one of them; a 5 s video with a single 1 s segment *)
(* yields no insertion.                                                    *)
(***************************************************************************)
Eligible(seg) ==
  /\ seg.start_sec >= options.avoidFirstSeconds
  /\ seg.end_sec <= arollDuration - options.avoidLastSeconds
  /\ seg.end_sec - seg.start_sec >= 3
  /\ "embedding" \in DOMAIN seg

ScenarioB ==
  /\ arollDuration = 10
  /\ Len(transcriptSegments) = 1
  /\ transcriptSegments[1].end_sec - transcriptSegments[1].start_sec = 2

C12_Eligibility ==
  /\ pc # "start" =>
       /\ {suitableSegments[k] : k \in 1..Len(suitableSegments)}
            = {transcriptSegments[k] : k \in
                 {j \in 1..Len(transcriptSegments) : Eligible(transcriptSegments[j])}}
       /\ Len(suitableSegments)
            = Cardinality({j \in 1..Len(transcriptSegments) :
                             Eligible(transcriptSegments[j])})
  /\ \A i \in 1..Len(insertions) :
       \E j \in 1..Len(transcriptSegments) :
         /\ Eligible(transcriptSegments[j])
         /\ transcriptSegments[j].start_sec = SegmentStartOf(insertions[i])
  /\ (ScenarioB /\ Returns) => result = << >>

\* of three segments the one without embedding and the one of 1 s were
\* dropped, the third produced the insertion
C12_Witness ==
  /\ Returns
  /\ Len(transcriptSegments) = 3
  /\ \E j \in 1..3 : ~HasEmbedding(transcriptSegments[j])
  /\ \E j \in 1..3 :
       /\ transcriptSegments[j].end_sec - transcriptSegments[j].start_sec < 3
       /\ transcriptSegments[j].start_sec >= options.avoidFirstSeconds
  /\ Len(suitableSegments) = 1
  /\ Len(result) = 1

(***************************************************************************)
(* C13.  Tie-break: findBestMatch returns the candidate of greatest        *)
(* similarity, the first of the list among several of that similarity.     *)
(***************************************************************************)
SimilarityIn(pool, k) ==
  cosineSimilarity(suitableSegments[idx].embedding, pool[k].embedding).value

\* the first position of pool that holds the greatest similarity
FirstGreatest(pool) ==
  CHOOSE k \in 1..Len(pool) :
    /\ \A j \in 1..Len(pool) : SimilarityIn(pool, j) <= SimilarityIn(pool, k)
    /\ \A j \in 1..(k - 1) : SimilarityIn(pool, j) < SimilarityIn(pool, k)

C13_FirstGreatestWins ==
  (Scoring /\ ~Scored.threw /\ Len(Pool) > 0) =>
    /\ Scored.value # NULL
    /\ Scored.value.id = Pool[FirstGreatest(Pool)].id
    /\ Scored.value.confidence = SimilarityIn(Pool, FirstGreatest(Pool))

(***************************************************************************)
(* C17.  Reuse under pressure: a segment that passes the gap check when    *)
(* every candidate id is used and the cap is not reached is scored against *)
(* the full candidate list, and with a single candidate every insertion    *)
(* names it.                                                               *)
(***************************************************************************)
AllUsed ==
  /\ brollEmbeddings # << >>
  /\ IdsOf(brollEmbeddings) \subseteq usedBrollIds

FullScore == findBestMatch(suitableSegments[idx].embedding, brollEmbeddings)

C17_ReuseUnderPressure ==
  /\ [][(Scoring /\ AllUsed /\ ~FullScore.threw) =>
          /\ match' = FullScore.value
          /\ Qualifies(FullScore.value, options) =>
               /\ Len(insertions') = Len(insertions) + 1
               /\ insertions'[Len(insertions')].broll_id = FullScore.value.id
               /\ insertions'[Len(insertions')].broll_id \in usedBrollIds]_vars
  /\ [](Len(brollEmbeddings) = 1 =>
          \A i \in 1..Len(insertions) :
            insertions[i].broll_id = brollEmbeddings[1].id)

\* two candidates, three insertions: the third names a used candidate again
C17_Witness ==
  /\ Returns
  /\ Len(brollEmbeddings) = 2
  /\ Len(result) = 3
  /\ result[1].broll_id # result[2].broll_id
  /\ result[3].broll_id \in {result[1].broll_id, result[2].broll_id}

(***************************************************************************)
(* C18.  No insertion comes from a segment that starts before              *)
(* avoidFirstSeconds + minInsertionGap: every insertion starts at          *)
(* avoidFirstSeconds + minInsertionGap + 0.5 s or later (10.5 s with the   *)
(* defaults), and an eligible segment that starts earlier is skipped       *)
(* without being scored.                                                   *)
(***************************************************************************)
Early(seg) ==
  seg.start_sec < options.avoidFirstSeconds + options.minInsertionGap

C18_FirstGapApplies ==
  /\ [](\A i \in 1..Len(insertions) :
          /\ insertions[i].start_sec >=
               options.avoidFirstSeconds + options.minInsertionGap + 1
          /\ options = DefaultOptions => insertions[i].start_sec >= 21)
  /\ [][(pc = "loop" /\ idx <= Len(suitableSegments)
         /\ Early(suitableSegments[idx])) =>
          (insertions' = insertions /\ match' = match /\ pc' # "error")]_vars

\* with the defaults a segment at 4 s that matches a candidate at 1.0 was
\* skipped and a later segment produced the insertion
C18_Witness ==
  /\ Returns
  /\ options = DefaultOptions
  /\ Len(suitableSegments) >= 2
  /\ Early(suitableSegments[1])
  /\ suitableSegments[1].start_sec >= options.avoidFirstSeconds
  /\ Len(brollEmbeddings) = 1
  /\ cosineSimilarity(suitableSegments[1].embedding,
                      brollEmbeddings[1].embedding) = Returned(100)
  /\ Len(result) = 1

(***************************************************************************)
(* C19.  Insertions never overlap: each starts at least minInsertionGap +  *)
(* 0.5 s after the end of the one before it (configurations with           *)
(* minInsertionGap >= 0).                                                  *)
(***************************************************************************)
C19_NoOverlap ==
  options.minInsertionGap >= 0 =>
    \A i \in 1..(Len(insertions) - 1) :
      /\ insertions[i + 1].start_sec >=
           insertions[i].start_sec + insertions[i].duration_sec
             + options.minInsertionGap + 1
      /\ insertions[i].start_sec + insertions[i].duration_sec
           <= insertions[i + 1].start_sec

\* three insertions of one plan
C19_Witness ==
  /\ Returns
  /\ Len(result) = 3
  /\ options.minInsertionGap > 0

(***************************************************************************)
(* C20.  With the default configuration every insertion ends within the    *)
(* A-roll, also when the minimum duration stretches it past the end of its *)
(* segment.                                                                *)
(***************************************************************************)
C20_InsideAroll ==
  options = DefaultOptions =>
    \A i \in 1..Len(insertions) :
      insertions[i].start_sec + insertions[i].duration_sec <= arollDuration

\* an insertion of the minimum duration that ends after its segment, which
\* ends avoidLastSeconds before the end of the A-roll
C20_Witness ==
  /\ Returns
  /\ options = DefaultOptions
  /\ \E i \in 1..Len(result), k \in 1..Len(suitableSegments) :
       /\ suitableSegments[k].start_sec = SegmentStartOf(result[i])
       /\ suitableSegments[k].end_sec = arollDuration - options.avoidLastSeconds
       /\ result[i].duration_sec = options.minInsertionDuration
       /\ result[i].start_sec + result[i].duration_sec > suitableSegments[k].end_sec

(***************************************************************************)
(* C16.  Input order does not matter: a call on segments of pairwise       *)
(* distinct start_sec ends as the call on any permutation of them ends     *)
(* (the same insertions, or the same error); the segments are processed in *)
(* ascending start_sec, those of equal start_sec in the order of the input.*)
(***************************************************************************)
Orderings(n) ==
  {f \in [1..n -> 1..n] : \A p, q \in 1..n : p # q => f[p] # f[q]}

Permuted(seq, f) == [k \in 1..Len(seq) |-> seq[f[k]]]

DistinctStarts(seq) ==
  \A p, q \in 1..Len(seq) : p # q => seq[p].start_sec # seq[q].start_sec

PositionIn(seq, x) == CHOOSE k \in 1..Len(seq) : seq[k] = x

C16_OrderIrrelevant ==
  /\ (pc \in {"done", "error"} /\ DistinctStarts(transcriptSegments)) =>
       \A f \in Orderings(Len(transcriptSegments)) :
         PlanInsertions(Permuted(transcriptSegments, f), brollEmbeddings,
                        arollDuration, options) = Outcome
  /\ pc # "start" =>
       \A i, j \in 1..Len(suitableSegments) :
         i < j =>
           /\ suitableSegments[i].start_sec <= suitableSegments[j].start_sec
           /\ suitableSegments[i].start_sec = suitableSegments[j].start_sec =>
                PositionIn(transcriptSegments, suitableSegments[i])
                  < PositionIn(transcriptSegments, suitableSegments[j])

\* three segments given latest first, two insertions
C16_Witness ==
  /\ Returns
  /\ Len(transcriptSegments) = 3
  /\ DistinctStarts(transcriptSegments)
  /\ transcriptSegments[1].start_sec > transcriptSegments[2].start_sec
  /\ transcriptSegments[2].start_sec > transcriptSegments[3].start_sec
  /\ Len(suitableSegments) = 3
  /\ Len(result) >= 2

(***************************************************************************)
(* C14.  Determinism and statelessness: a call of planInsertions ends as   *)
(* every earlier call of the process with the same segments, candidates,   *)
(* duration and config ended, whatever calls were made before or between   *)
(* them; and it ends as the function of its arguments says.                *)
(***************************************************************************)
C14_Deterministic ==
  pc \in {"done", "error"} =>
    /\ \A k \in 1..Len(calls) :
         calls[k].args = inputs => calls[k].outcome = Outcome
    /\ Outcome = PlanFrom(SortByStart(FilterSuitable(transcriptSegments,
                                                     arollDuration, options)),
                          1, brollEmbeddings, options, << >>, {},
                          options.avoidFirstSeconds)

\* the same call twice with another call, which used b1, between them
C14_Witness ==
  /\ Returns
  /\ Len(calls) = 2
  /\ calls[1].args = inputs
  /\ calls[2].args # inputs
  /\ ~calls[2].outcome.threw
  /\ Len(calls[2].outcome.value) >= 1
  /\ Len(result) >= 1
  /\ Len(brollEmbeddings) = 2

(***************************************************************************)
(* C15.  Orchestration guard.  As stated: in every handling of a plan      *)
(* request, planInsertions is invoked only after the B-roll list was       *)
(* checked non-empty and the transcription returned at least one segment,  *)
(* and only after download, transcription and embedding completed in that  *)
(* order; when a check fails the request ends with an error response and   *)
(* the planner is never called.                                            *)
(***************************************************************************)
Position(event) ==
  IF \E k \in 1..Len(srv.log) : srv.log[k] = event
  THEN CHOOSE k \in 1..Len(srv.log) :
         srv.log[k] = event /\ \A j \in 1..(k - 1) : srv.log[j] # event
  ELSE 0

Before(first, second) ==
  Position(first) > 0 /\ Position(first) < Position(second)

Called == Position("planInsertions") > 0

\* the configuration the handler reads, if it gets that far
ReadsConfig ==
  IF srv.handler = "upload"
  THEN srv.arollFile /\ srv.file.kind = "json"
  ELSE UsesBody(srv) \/ srv.file.kind = "json"

ConfigRead ==
  IF srv.handler # "upload" /\ UsesBody(srv) THEN srv.body.config
  ELSE srv.file.config

ChecksHold ==
  /\ Len(srv.b_rolls) > 0
  /\ Len(srv.transcript.segments) > 0
  /\ Before("checkedBrolls", "planInsertions")
  /\ Before("checkedSegments", "planInsertions")

PipelineInOrder ==
  /\ Before("transcription", "embedSegments")
  /\ Before("embedSegments", "embedBrolls")
  /\ Before("embedBrolls", "planInsertions")

FailedCheckEnds ==
  /\ (srv.at # "received" /\ ReadsConfig /\ BrollsMissing(ConfigRead.b_rolls)) =>
       srv.at = "responded" /\ srv.status = 400 /\ ~Called
  /\ (Position("transcription") > 0 /\ NoSegments(srv.transcript)) =>
       srv.at = "responded" /\ srv.status = 500 /\ ~Called

C15_GuardedAfterDownload ==
  /\ Called => ChecksHold /\ PipelineInOrder
                 /\ Before("download", "transcription")
  /\ FailedCheckEnds

(***************************************************************************)
(* C15, amended: the download precedes the transcription in both           *)
(* POST /api/plan handlers; POST /api/plan/upload downloads nothing and    *)
(* transcribes the uploaded buffer.  The checks and the rest of the order  *)
(* hold in all three handlers.                                             *)
(***************************************************************************)
C15_Guarded ==
  /\ Called => ChecksHold /\ PipelineInOrder
                 /\ IF srv.handler = "upload"
                    THEN Position("download") = 0
                    ELSE Before("download", "transcription")
  /\ FailedCheckEnds

\* an upload answered with a plan of at least one insertion
C15_Witness ==
  /\ srv.at = "responded"
  /\ srv.handler = "upload"
  /\ srv.status = 200
  /\ Called
  /\ Len(srv.response.insertions) >= 1

====
